---- MODULE Spec2Model ----
(***************************************************************************)
(* Model of the recipes application (backend/recipes): the shopping cart   *)
(* (ShoppingCartViewSet), the shopping-list aggregation                    *)
(* (download_shopping_cart), recipe authoring (RecipeViewSet) and its      *)
(* permission class (AdminOrAuthorOrReadOnly).                             *)
(***************************************************************************)
EXTENDS Integers, Sequences, FiniteSets, TLC

VARIABLES
    recipe,   \* Recipe table: recipe id -> author, or NoRecipe
    lines,    \* RecipeIngredients rows in the order the database returns them
    cart,     \* ShoppingCart rows in the order the database returns them
    added,    \* the same ShoppingCart rows ordered by added_date (creation)
    req,      \* cart requests in flight, one per session
    dl,       \* the download_shopping_cart call in flight
    hist,     \* history of persisted states since the download started
    resp,     \* the latest HTTP response
    prev,     \* the download response before the latest one
    perm      \* the latest permission check of RecipeViewSet

vars == <<recipe, lines, cart, added, req, dl, hist, resp, prev, perm>>

(***************************************************************************)
(* Bounds of the model.                                                    *)
(***************************************************************************)
MaxLines == 2       \* rows of the RecipeIngredients table
MaxCart == 2        \* rows of the ShoppingCart table
MaxAmount == 2      \* largest amount of a recipe-ingredient line
MaxEdits == 2       \* writes that may overlap one download call

Users == {"alice", "bob"}
RecipeIds == {1, 2}
None == "None"   \* no user, no exception
Null == -1       \* a null amount
NoRecipe == "NoRecipe"   \* an id not given out yet
Deleted == "Deleted"     \* the id of a deleted recipe (ids are not reused)
Authors == Users

(***************************************************************************)
(* models.py                                                               *)
(***************************************************************************)
\* Ingredient.Unit: the stored values of measurement_unit.
Unit == {"gram", "kilogram"}

\* The Ingredient table.  No view writes it (IngredientViewSet is list and
\* retrieve only).  (name, measurement_unit) is unique; the name is not.
Ingredient ==
    [i \in 1..3 |->
        CASE i = 1 -> [name |-> "Sugar", measurement_unit |-> "gram"]
          [] i = 2 -> [name |-> "Sugar", measurement_unit |-> "kilogram"]
          [] OTHER -> [name |-> "Salt", measurement_unit |-> "gram"]]

\* RecipeIngredients.amount: PositiveSmallIntegerField(null=True).
Amounts == (1..MaxAmount) \cup {Null}

\* A RecipeIngredients row.
RecipeIngredients == [recipe : RecipeIds, ingredient : DOMAIN Ingredient, amount : Amounts]

\* A ShoppingCart row (added_date is kept as the order of `added`).
ShoppingCart == [user : Users, recipe : RecipeIds]

RECURSIVE SeqsUpTo(_, _)
\* All sequences over S of length at most n.
SeqsUpTo(S, n) ==
    IF n = 0 THEN {<<>>}
    ELSE LET shorter == SeqsUpTo(S, n - 1)
         IN  shorter \cup {Append(s, x) : s \in {t \in shorter : Len(t) = n - 1}, x \in S}

Range(s) == {s[i] : i \in DOMAIN s}
NoDuplicates(s) == \A i, j \in DOMAIN s : i # j => s[i] # s[j]

\* The table without its constraint: any rows are accepted.
NoConstraint(rows) == TRUE

\* ShoppingCart.Meta: UniqueConstraint(fields=['user', 'recipe']).
unique_shopping_cart(rows) == NoDuplicates(rows)

\* s with x inserted so that it becomes element number k.
InsertAt(s, k, x) == SubSeq(s, 1, k - 1) \o <<x>> \o SubSeq(s, k, Len(s))

\* All orderings of the elements of the duplicate-free sequence s.
Orderings(s) ==
    {t \in SeqsUpTo(Range(s), Len(s)) : Len(t) = Len(s) /\ Range(t) = Range(s)}

(***************************************************************************)
(* views.py: download_shopping_cart                                        *)
(***************************************************************************)
TypeError == "TypeError"
DoesNotExist == "DoesNotExist"

\* user.shopping_cart.all() (line 148): the user's rows, no ordering given.
shopping_cart(rows, user) == SelectSeq(rows, LAMBDA record : record.user = user)

\* The query without its filter: RecipeIngredients.objects.all().
AllIngredients(rows, r) == rows

\* RecipeIngredients.objects.filter(recipe=recipe) (line 152).
ingredients(rows, r) == SelectSeq(rows, LAMBDA ingredient : ingredient.recipe = r)

\* The position of name in the dict buying_list, 0 when absent.
KeyIndex(buying_list, name) ==
    IF \E k \in DOMAIN buying_list : buying_list[k].name = name
    THEN CHOOSE k \in DOMAIN buying_list : buying_list[k].name = name
    ELSE 0

\* Python's + on two amounts raises TypeError when either is None.
Raises(a, b) == a = Null \/ b = Null

\* The dict buying_list: its items in insertion order, and the exception
\* that ended the loop, if any.
Dict(items) == [raised |-> None, items |-> items]
Raised(exception) == [raised |-> exception, items |-> <<>>]

\* The body of the inner loop (lines 154-164).
Accumulate(buying_list, ingredient) ==
    LET amount == ingredient.amount
        name == Ingredient[ingredient.ingredient].name
        measurement_unit == Ingredient[ingredient.ingredient].measurement_unit
        k == KeyIndex(buying_list, name)
    IN  IF k = 0
        THEN Dict(Append(buying_list,
                         [name |-> name, measurement_unit |-> measurement_unit,
                          amount |-> amount]))
        ELSE IF Raises(buying_list[k].amount, amount)
        THEN Raised(TypeError)
        ELSE Dict([buying_list EXCEPT ![k].amount = buying_list[k].amount + amount])

RECURSIVE ForIngredients(_, _)
\* The inner loop (lines 153-164) over the rows of one recipe.
ForIngredients(buying_list, rows) ==
    IF rows = <<>> THEN Dict(buying_list)
    ELSE LET next == Accumulate(buying_list, Head(rows))
         IN  IF next.raised # None THEN next
             ELSE ForIngredients(next.items, Tail(rows))

\* The text of one line of the document (line 179), as its three fields.
DrawString(item) == <<item.name, item.measurement_unit, item.amount>>

\* The rendering loop over sorted(buying_list.items()): lines by name.
RenderSorted(buying_list) ==
    LET drawn == [k \in DOMAIN buying_list |-> DrawString(buying_list[k])]
    IN  SelectSeq(drawn, LAMBDA line : line[1] = "Salt")
            \o SelectSeq(drawn, LAMBDA line : line[1] # "Salt")

\* The rendering loop (lines 175-181): one drawString per dict item.
Render(buying_list) == [k \in DOMAIN buying_list |-> DrawString(buying_list[k])]

\* An HTTP response: the view that answered, who asked and for which recipe,
\* the status code, and the lines of the document for a download.
Response(view, user, r, status, body) ==
    [view |-> view, user |-> user, recipe |-> r, status |-> status,
     raised |-> None, body |-> body]
\* An exception no handler catches: Django answers 500.
ServerError(view, user, r, exception) ==
    [view |-> view, user |-> user, recipe |-> r, status |-> 500,
     raised |-> exception, body |-> <<>>]
NoResponse == Response(None, None, 0, 0, <<>>)
\* The answers of the cart and recipe views, kept as their status alone.
Status(view, status) == Response(view, None, 0, status, <<>>)
Failure(view, exception) == ServerError(view, None, 0, exception)

\* The tables a download reads.
Snapshot == <<recipe, lines, cart>>
NoHistory == [first |-> <<>>, seen |-> {}]
\* A write during a download call adds the state it leaves to the history.
Logged ==
    hist' = IF dl.pc = "idle" THEN hist
            ELSE [hist EXCEPT !.seen = @ \cup {<<recipe', lines', cart'>>}]
\* At most MaxEdits states may follow the first one during one call.
MayWrite == dl.pc = "idle" \/ Cardinality(hist.seen) <= MaxEdits

Idle == [pc |-> "idle", user |-> None, shopping_cart |-> <<>>, i |-> 0,
         buying_list |-> <<>>]

\* Lines 147-150: the cart query is evaluated when the outer loop starts.
DownloadStart(user) ==
    /\ dl.pc = "idle"
    /\ dl' = [pc |-> "record", user |-> user,
              shopping_cart |-> shopping_cart(cart, user), i |-> 1,
              buying_list |-> <<>>]
    /\ hist' = [first |-> Snapshot, seen |-> {Snapshot}]
    /\ prev' = IF resp.view = "download" THEN resp ELSE NoResponse
    /\ UNCHANGED <<recipe, lines, cart, added, req, resp, perm>>

\* Line 151: record.recipe is fetched by its own query; a row whose recipe
\* is gone by now raises Recipe.DoesNotExist (a 500 response).
DownloadRecipe ==
    /\ dl.pc = "record"
    /\ dl.i <= Len(dl.shopping_cart)
    /\ IF recipe[dl.shopping_cart[dl.i].recipe] \notin Authors
       THEN /\ dl' = Idle
            /\ resp' = ServerError("download", dl.user, 0, DoesNotExist)
       ELSE /\ dl' = [dl EXCEPT !.pc = "ingredients"]
            /\ UNCHANGED resp
    /\ UNCHANGED <<recipe, lines, cart, added, req, hist, prev, perm>>

\* Lines 152-164: the recipe's rows are queried and accumulated; a TypeError
\* of the addition is not caught (a 500 response).
DownloadIngredients ==
    /\ dl.pc = "ingredients"
    /\ LET rows == ingredients(lines, dl.shopping_cart[dl.i].recipe)
           buying_list == ForIngredients(dl.buying_list, rows)
       IN  IF buying_list.raised # None
           THEN /\ dl' = Idle
                /\ resp' = ServerError("download", dl.user, 0, TypeError)
           ELSE /\ dl' = [dl EXCEPT !.pc = "record", !.i = dl.i + 1,
                                    !.buying_list = buying_list.items]
                /\ UNCHANGED resp
    /\ UNCHANGED <<recipe, lines, cart, added, req, hist, prev, perm>>

\* The document is returned and the cart of the user is emptied.
DownloadAndClear ==
    /\ dl.pc = "record"
    /\ dl.i > Len(dl.shopping_cart)
    /\ dl' = Idle
    /\ resp' = Response("download", dl.user, 0, 200, Render(dl.buying_list))
    /\ cart' = SelectSeq(cart, LAMBDA row : row.user # dl.user)
    /\ added' = SelectSeq(added, LAMBDA row : row.user # dl.user)
    /\ UNCHANGED <<recipe, lines, req, hist, prev, perm>>

\* Lines 165-184: the document is drawn from the dict and returned.
DownloadRender ==
    /\ dl.pc = "record"
    /\ dl.i > Len(dl.shopping_cart)
    /\ dl' = Idle
    /\ resp' = Response("download", dl.user, 0, 200, Render(dl.buying_list))
    /\ UNCHANGED <<recipe, lines, cart, added, req, hist, prev, perm>>

download_shopping_cart ==
    \/ \E user \in Users : DownloadStart(user)
    \/ DownloadRecipe
    \/ DownloadIngredients
    \/ DownloadRender

(***************************************************************************)
(* permissions.py: AdminOrAuthorOrReadOnly                                 *)
(***************************************************************************)
\* request.user: a user with its flags, or the anonymous user.
Principal(id, is_superuser, is_admin) ==
    [id |-> id, is_superuser |-> is_superuser, is_admin |-> is_admin]
Anonymous == Principal("anonymous", FALSE, FALSE)
is_authenticated(user) == user.id # "anonymous"
is_anonymous(user) == user.id = "anonymous"

\* rest_framework.permissions.SAFE_METHODS, and the class's own list.
SAFE_METHODS == {"GET", "HEAD", "OPTIONS"}
NOT_SAFE_METHOD == {"POST", "PUT", "PATCH", "DELETE"}

\* The requests the router sends to RecipeViewSet: the HTTP method, the
\* name the view set gives to view.action, and whether it names one recipe.
Routes ==
    {[method |-> "GET", action |-> "list", detail |-> FALSE],
     [method |-> "HEAD", action |-> "list", detail |-> FALSE],
     [method |-> "OPTIONS", action |-> "metadata", detail |-> FALSE],
     [method |-> "POST", action |-> "create", detail |-> FALSE],
     [method |-> "GET", action |-> "retrieve", detail |-> TRUE],
     [method |-> "HEAD", action |-> "retrieve", detail |-> TRUE],
     [method |-> "OPTIONS", action |-> "metadata", detail |-> TRUE],
     [method |-> "PUT", action |-> "update", detail |-> TRUE],
     [method |-> "PATCH", action |-> "partial_update", detail |-> TRUE],
     [method |-> "DELETE", action |-> "destroy", detail |-> TRUE]}
Route(action) == CHOOSE route \in Routes : route.action = action
\* PUT and PATCH take the same path through the class and the view set; the
\* running system sends PUT.
UpdateRoutes == {Route("update")}

\* has_permission (lines 7-13): the tests are made on view.action.
has_permission(route, user) ==
    IF route.action \in SAFE_METHODS THEN TRUE
    ELSE IF route.action \in NOT_SAFE_METHOD THEN is_authenticated(user)
    ELSE TRUE

\* has_object_permission (lines 15-25); falling off the end returns None,
\* which the framework takes as a denial.
has_object_permission(route, user, author) ==
    IF route.action \in SAFE_METHODS THEN TRUE
    ELSE IF route.method \in NOT_SAFE_METHOD /\ ~is_anonymous(user)
    THEN user.id = author \/ user.is_superuser \/ user.is_admin
    ELSE FALSE

(***************************************************************************)
(* views.py: ShoppingCartViewSet                                           *)
(***************************************************************************)
IntegrityError == "IntegrityError"
MultipleObjectsReturned == "MultipleObjectsReturned"
ValueError == "ValueError"

Sessions == {"s1", "s2"}
NoRequest == [pc |-> "idle", user |-> None, recipe |-> 0]
Row(user, r) == [user |-> user, recipe |-> r]
\* filter(recipe=...): the rows of the recipe, whoever owns them.
MatchingRecipe(rows, user, r) == SelectSeq(rows, LAMBDA row : row.recipe = r)

\* filter(user=..., recipe=...): the matching rows.
Matching(rows, user, r) == SelectSeq(rows, LAMBDA row : row = Row(user, r))

\* get, lines 117-124: the request of a session begins; a recipe found in
\* the cart is refused.
AddExists(s, user, r) ==
    /\ req[s].pc = "idle"
    /\ IF Matching(cart, user, r) # <<>>
       THEN /\ resp' = Status("cart", 400)
            /\ UNCHANGED req
       ELSE /\ req' = [req EXCEPT ![s] = [pc |-> "save", user |-> user, recipe |-> r]]
            /\ UNCHANGED resp
    /\ UNCHANGED <<recipe, lines, cart, added, dl, hist, prev, perm>>

\* ShoppingCartSerializer.is_valid(): the recipe id must name a recipe.
is_valid(recipes, row) == recipes[row.recipe] \in Authors

\* ShoppingCartSerializer.save(): the row is created; it takes place k among
\* the rows the database returns.
save(rows, k, row) == InsertAt(rows, k, row)

\* get, lines 126-133: a request that is not valid is refused; save() inserts
\* the row, which the database refuses when it breaks unique_shopping_cart.
AddSave(s) ==
    /\ req[s].pc = "save"
    /\ MayWrite
    /\ LET row == Row(req[s].user, req[s].recipe)
       IN  IF ~is_valid(recipe, row)
           THEN /\ resp' = Status("cart", 400)
                /\ UNCHANGED <<cart, added>>
           ELSE IF ~unique_shopping_cart(Append(cart, row))
           THEN /\ resp' = Failure("cart", IntegrityError)
                /\ UNCHANGED <<cart, added>>
           ELSE /\ Len(cart) < MaxCart
                /\ \E k \in 1..(Len(cart) + 1) : cart' = save(cart, k, row)
                /\ added' = Append(added, row)
                /\ resp' = Status("cart", 201)
    /\ req' = [req EXCEPT ![s] = NoRequest]
    /\ UNCHANGED <<recipe, lines>>
    /\ Logged
    /\ UNCHANGED <<dl, prev, perm>>

\* delete, line 137: get_object_or_404(Recipe, id=recipe_id).
RemoveGet(s, user, r) ==
    /\ req[s].pc = "idle"
    /\ IF recipe[r] \notin Authors
       THEN /\ resp' = Status("cart", 404)
            /\ UNCHANGED req
       ELSE /\ req' = [req EXCEPT ![s] = [pc |-> "exists", user |-> user, recipe |-> r]]
            /\ UNCHANGED resp
    /\ UNCHANGED <<recipe, lines, cart, added, dl, hist, prev, perm>>

\* delete, lines 138-140.
RemoveExists(s) ==
    /\ req[s].pc = "exists"
    /\ IF Matching(cart, req[s].user, req[s].recipe) = <<>>
       THEN /\ resp' = Status("cart", 400)
            /\ req' = [req EXCEPT ![s] = NoRequest]
       ELSE /\ req' = [req EXCEPT ![s].pc = "delete"]
            /\ UNCHANGED resp
    /\ UNCHANGED <<recipe, lines, cart, added, dl, hist, prev, perm>>

\* delete, with filter(user=request.user).delete(): the whole cart goes.
RemoveAll(s) ==
    /\ req[s].pc = "delete"
    /\ MayWrite
    /\ cart' = SelectSeq(cart, LAMBDA row : row.user # req[s].user)
    /\ added' = SelectSeq(added, LAMBDA row : row.user # req[s].user)
    /\ resp' = Status("cart", 204)
    /\ req' = [req EXCEPT ![s] = NoRequest]
    /\ UNCHANGED <<recipe, lines>>
    /\ Logged
    /\ UNCHANGED <<dl, prev, perm>>

\* delete, lines 141-142: get() raises unless exactly one row matches.
RemoveDelete(s) ==
    /\ req[s].pc = "delete"
    /\ MayWrite
    /\ LET found == Matching(cart, req[s].user, req[s].recipe)
       IN  IF Len(found) # 1
           THEN /\ resp' = Failure("cart", IF found = <<>> THEN DoesNotExist
                                           ELSE MultipleObjectsReturned)
                /\ UNCHANGED <<cart, added>>
           ELSE /\ cart' = SelectSeq(cart, LAMBDA row : row # found[1])
                /\ added' = SelectSeq(added, LAMBDA row : row # found[1])
                /\ resp' = Status("cart", 204)
    /\ req' = [req EXCEPT ![s] = NoRequest]
    /\ UNCHANGED <<recipe, lines>>
    /\ Logged
    /\ UNCHANGED <<dl, prev, perm>>

\* Who may be logged in on a session: the second session may be the same
\* user's or another user's.
SessionUsers(s) == IF s = "s1" THEN {"alice"} ELSE Users

ShoppingCartViewSet(s) ==
    \/ \E user \in SessionUsers(s), r \in RecipeIds : AddExists(s, user, r)
    \/ AddSave(s)
    \/ \E user \in SessionUsers(s), r \in RecipeIds : RemoveGet(s, user, r)
    \/ RemoveExists(s)
    \/ RemoveDelete(s)

(***************************************************************************)
(* views.py: RecipeViewSet (a ModelViewSet guarded by the permission       *)
(* class).  CreateRecipeSerializer writes the recipe and its rows.         *)
(***************************************************************************)
\* CreateRecipeSerializer: the ingredient lines of a request body, and the
\* rows written for them.
Line == [ingredient : DOMAIN Ingredient, amount : Amounts]
RowsFor(r, payload) ==
    [k \in DOMAIN payload |->
        [recipe |-> r, ingredient |-> payload[k].ingredient,
         amount |-> payload[k].amount]]

Denied(user) == Status("recipes", IF is_anonymous(user) THEN 401 ELSE 403)

\* POST /recipes/: the new recipe takes the next id.
RecipeCreate(user, payload) ==
    /\ MayWrite
    /\ \E r \in RecipeIds :
          /\ recipe[r] = NoRecipe
          /\ \A other \in RecipeIds : other < r => recipe[other] # NoRecipe
          /\ IF ~has_permission(Route("create"), user)
             THEN /\ resp' = Denied(user)
                  /\ UNCHANGED <<recipe, lines>>
             ELSE IF is_anonymous(user)
             THEN /\ resp' = Failure("recipes", ValueError)
                  /\ UNCHANGED <<recipe, lines>>
             ELSE /\ Len(lines) + Len(payload) <= MaxLines
                  /\ recipe' = [recipe EXCEPT ![r] = user.id]
                  /\ lines' = lines \o RowsFor(r, payload)
                  /\ resp' = Status("recipes", 201)
    /\ UNCHANGED <<cart, added>>
    /\ Logged
    /\ UNCHANGED <<req, dl, prev, perm>>

\* PUT or PATCH /recipes/<r>/: the rows of the recipe are replaced.
RecipeUpdate(route, user, r, payload) ==
    /\ MayWrite
    /\ IF ~has_permission(route, user)
       THEN /\ resp' = Denied(user)
            /\ UNCHANGED lines
       ELSE IF recipe[r] \notin Authors
       THEN /\ resp' = Status("recipes", 404)
            /\ UNCHANGED lines
       ELSE IF ~has_object_permission(route, user, recipe[r])
       THEN /\ resp' = Denied(user)
            /\ UNCHANGED lines
       ELSE LET kept == SelectSeq(lines, LAMBDA row : row.recipe # r)
            IN  /\ Len(kept) + Len(payload) <= MaxLines
                /\ lines' = kept \o RowsFor(r, payload)
                /\ resp' = Status("recipes", 200)
    /\ UNCHANGED <<recipe, cart, added>>
    /\ Logged
    /\ UNCHANGED <<req, dl, prev, perm>>

\* DELETE /recipes/<r>/: on_delete=CASCADE removes the rows of
\* RecipeIngredients and of ShoppingCart that name the recipe.
RecipeDestroy(user, r) ==
    /\ MayWrite
    /\ IF ~has_permission(Route("destroy"), user)
       THEN /\ resp' = Denied(user)
            /\ UNCHANGED <<recipe, lines, cart, added>>
       ELSE IF recipe[r] \notin Authors
       THEN /\ resp' = Status("recipes", 404)
            /\ UNCHANGED <<recipe, lines, cart, added>>
       ELSE IF ~has_object_permission(Route("destroy"), user, recipe[r])
       THEN /\ resp' = Denied(user)
            /\ UNCHANGED <<recipe, lines, cart, added>>
       ELSE /\ recipe' = [recipe EXCEPT ![r] = Deleted]
            /\ lines' = SelectSeq(lines, LAMBDA row : row.recipe # r)
            /\ cart' = SelectSeq(cart, LAMBDA row : row.recipe # r)
            /\ added' = SelectSeq(added, LAMBDA row : row.recipe # r)
            /\ resp' = Status("recipes", 204)
    /\ Logged
    /\ UNCHANGED <<req, dl, prev, perm>>

\* The users of the running system: two ordinary users and the anonymous
\* user.
Visitors == {Principal(id, FALSE, FALSE) : id \in Users} \cup {Anonymous}

\* The request bodies tried on the running system.
Payloads == {<<>>, <<[ingredient |-> 1, amount |-> 1]>>}

RecipeViewSet ==
    \/ \E user \in Visitors, payload \in Payloads : RecipeCreate(user, payload)
    \/ \E route \in UpdateRoutes, user \in Visitors, r \in RecipeIds,
          payload \in Payloads :
          RecipeUpdate(route, user, r, payload)
    \/ \E user \in Visitors, r \in RecipeIds : RecipeDestroy(user, r)

(***************************************************************************)
(* The running system: cart requests of two sessions, interleaved with     *)
(* each other and with recipe authoring.                                   *)
(***************************************************************************)
NoRequests == [s \in Sessions |-> NoRequest]
NoCheck ==
    [route |-> Route("list"), user |-> Anonymous, author |-> None,
     has_permission |-> FALSE, has_object_permission |-> FALSE]

Init ==
    /\ recipe = [r \in RecipeIds |-> NoRecipe]
    /\ lines = <<>>
    /\ cart = <<>>
    /\ added = <<>>
    /\ req = NoRequests
    /\ dl = Idle
    /\ hist = NoHistory
    /\ resp = NoResponse
    /\ prev = NoResponse
    /\ perm = NoCheck

Next ==
    \/ \E s \in Sessions : ShoppingCartViewSet(s)
    \/ RecipeViewSet

Spec == Init /\ [][Next]_vars

(***************************************************************************)
(* A download overlapping the writes of other requests: alice downloads    *)
(* once, and while her call runs one of her sessions changes her cart and  *)
(* the authors edit or delete their recipes.                               *)
(***************************************************************************)
InitSnap ==
    /\ recipe = [r \in RecipeIds |-> IF r = 1 THEN "alice" ELSE "bob"]
    /\ lines \in SeqsUpTo({row \in RecipeIngredients : row.amount = 1}, MaxLines)
    /\ cart \in {s \in SeqsUpTo({Row("alice", r) : r \in RecipeIds}, MaxCart) :
                    unique_shopping_cart(s)}
    /\ added \in Orderings(cart)
    /\ req = NoRequests
    /\ dl = Idle
    /\ hist = NoHistory
    /\ resp = NoResponse
    /\ prev = NoResponse
    /\ perm = NoCheck

\* The other requests run while the download call is in flight.
Overlapping ==
    /\ dl.pc # "idle"
    /\ \/ ShoppingCartViewSet("s1")
       \/ \E r \in RecipeIds, payload \in Payloads :
             RecipeUpdate(Route("update"), Principal(recipe[r], FALSE, FALSE), r, payload)
       \/ \E r \in RecipeIds : RecipeDestroy(Principal(recipe[r], FALSE, FALSE), r)

NextSnap ==
    \/ hist = NoHistory /\ DownloadStart("alice")
    \/ DownloadRecipe
    \/ DownloadIngredients
    \/ DownloadRender
    \/ Overlapping

SpecSnap == InitSnap /\ [][NextSnap]_vars

(***************************************************************************)
(* The permission class alone, asked about every request.                  *)
(***************************************************************************)
AllPrincipals ==
    {Principal(id, su, ad) : id \in Users, su \in BOOLEAN, ad \in BOOLEAN}
        \cup {Anonymous}

\* check_permissions, and check_object_permissions for a request that names
\* a recipe: the answers of the class for one request.
CheckPermissions(route, user, author) ==
    /\ perm' = [route |-> route, user |-> user, author |-> author,
                has_permission |-> has_permission(route, user),
                has_object_permission |->
                    has_object_permission(route, user, author)]
    /\ UNCHANGED <<recipe, lines, cart, added, req, dl, hist, resp, prev>>

NextPerm ==
    \E route \in Routes, user \in AllPrincipals, author \in Users :
        CheckPermissions(route, user, author)

SpecPerm == Init /\ [][NextPerm]_vars

(***************************************************************************)
(* The aggregation alone: any persisted state with intact references, and  *)
(* download requests one after the other.                                  *)
(***************************************************************************)

InitAgg ==
    /\ recipe = [r \in RecipeIds |-> IF r = 1 THEN "alice" ELSE "bob"]
    /\ lines \in SeqsUpTo(RecipeIngredients, MaxLines)
    /\ cart \in {s \in SeqsUpTo(ShoppingCart, MaxCart) : unique_shopping_cart(s)}
    /\ added \in Orderings(cart)
    /\ req = NoRequests
    /\ dl = Idle
    /\ hist = NoHistory
    /\ resp = NoResponse
    /\ prev = NoResponse
    /\ perm = NoCheck

NextAgg == download_shopping_cart

SpecAgg == InitAgg /\ [][NextAgg]_vars

(***************************************************************************)
(* What the shopping list is expected to hold, stated over the tables.     *)
(***************************************************************************)
\* The rows of one recipe among the rows of the table, in table order.
RowsOf(lineRows, r) == SelectSeq(lineRows, LAMBDA row : row.recipe = r)

RECURSIVE Traversal(_, _, _)
\* The recipe-ingredient rows met when the cart rows of the user are taken
\* in the order of cartRows and each recipe's rows in the order of lineRows.
Traversal(cartRows, lineRows, user) ==
    IF cartRows = <<>> THEN <<>>
    ELSE (IF Head(cartRows).user = user
          THEN RowsOf(lineRows, Head(cartRows).recipe)
          ELSE <<>>) \o Traversal(Tail(cartRows), lineRows, user)

NameOf(row) == Ingredient[row.ingredient].name
UnitOf(row) == Ingredient[row.ingredient].measurement_unit
NamesIn(rows) == {NameOf(rows[k]) : k \in DOMAIN rows}
Named(rows, name) == SelectSeq(rows, LAMBDA row : NameOf(row) = name)

RECURSIVE FirstSeen(_)
\* The distinct names of rows in the order of their first occurrence.
FirstSeen(rows) ==
    IF rows = <<>> THEN <<>>
    ELSE LET front == FirstSeen(SubSeq(rows, 1, Len(rows) - 1))
             name == NameOf(rows[Len(rows)])
         IN  IF name \in Range(front) THEN front ELSE Append(front, name)

RECURSIVE Total(_)
\* The sum of the amounts of rows; a null amount adds nothing, and rows
\* that are all null have a null total.
Total(rows) ==
    IF rows = <<>> THEN Null
    ELSE LET rest == Total(Tail(rows))
             amount == Head(rows).amount
         IN  IF amount = Null THEN rest
             ELSE IF rest = Null THEN amount
             ELSE amount + rest

\* The latest response answers a download of the shopping list.
Downloaded == resp.view = "download"
\* The rows the latest download had to aggregate, as the tables stand.
Contributing == Traversal(cart, lines, resp.user)
LinesNamed(name) == SelectSeq(resp.body, LAMBDA line : line[1] = name)

\* C1: every download yields exactly one line per distinct ingredient name
\* of the recipes in the user's cart, with the sum of the amounts of all
\* rows of that name; an empty cart yields no line.
C1_OneLinePerNameWithSum ==
    Downloaded =>
        /\ resp.status = 200
        /\ {resp.body[k][1] : k \in DOMAIN resp.body} = NamesIn(Contributing)
        /\ \A name \in NamesIn(Contributing) :
              /\ Len(LinesNamed(name)) = 1
              /\ LinesNamed(name)[1][3] = Total(Named(Contributing, name))

\* Two distinct Ingredient records of this name, with different units, occur
\* among the rows.
TwoUnits(rows, name) ==
    \E j, k \in DOMAIN rows :
        /\ NameOf(rows[j]) = name /\ NameOf(rows[k]) = name
        /\ UnitOf(rows[j]) # UnitOf(rows[k])

\* C2: when two Ingredient records with one name and different units occur
\* in the cart's recipes, the result has exactly one line for the name, with
\* the unit of the occurrence met first and the plain sum of the amounts.
C2_GroupedByNameAlone ==
    Downloaded =>
        \A name \in NamesIn(Contributing) :
            TwoUnits(Contributing, name) =>
                /\ resp.status = 200
                /\ Len(LinesNamed(name)) = 1
                /\ LinesNamed(name)[1][2] = UnitOf(Named(Contributing, name)[1])
                /\ LinesNamed(name)[1][3] = Total(Named(Contributing, name))

\* The names of the lines of the latest response, in order.
BodyNames == [k \in DOMAIN resp.body |-> resp.body[k][1]]

\* C3 as claimed: the lines are in the order in which the names are first
\* met when the cart entries are taken in creation order.
C3_CreationOrder ==
    (Downloaded /\ resp.status = 200) =>
        BodyNames = FirstSeen(Traversal(added, lines, resp.user))

\* C3 as amended: the lines are in the order in which the names are first
\* met when the cart rows and each recipe's rows are taken in the order the
\* database returned them, whatever that order is; nothing sorts them.
C3_ReturnedOrder ==
    (Downloaded /\ resp.status = 200) =>
        BodyNames = FirstSeen(Contributing)

\* C3 witness: a list of two names whose cart rows came back in another
\* order than they were created in, and whose lines follow the returned one.
C3_Witness ==
    /\ Downloaded /\ resp.status = 200
    /\ Len(resp.body) = 2
    /\ BodyNames = FirstSeen(Contributing)
    /\ BodyNames # FirstSeen(Traversal(added, lines, resp.user))

\* C4: the download completes with a line for every ingredient name, on
\* every cart whose rows are valid (amount a positive integer or null).
C4_NeverFails ==
    Downloaded =>
        /\ resp.status = 200
        /\ \A name \in NamesIn(Contributing) : Len(LinesNamed(name)) >= 1

\* C8: a download changes no table, and two downloads in a row for the same
\* user, with no write between them, return the same response.
C8_NoSideEffects ==
    [][/\ recipe' = recipe /\ lines' = lines /\ cart' = cart /\ added' = added
       /\ (resp'.view = "download" /\ prev'.user = resp'.user) => prev' = resp'
      ]_vars

\* C8 witness: the second of two downloads of one user returned a line.
C8_Witness ==
    /\ Downloaded /\ prev.user = resp.user
    /\ resp.status = 200 /\ Len(resp.body) >= 1 /\ dl.pc = "idle"

(***************************************************************************)
(* The cart under concurrent requests.                                     *)
(***************************************************************************)
CartOf(rows, user) == SelectSeq(rows, LAMBDA row : row.user = user)
Copies(rows, row) == Cardinality({k \in DOMAIN rows : rows[k] = row})

\* C5: after any interleaving of add and remove requests, two concurrent
\* adds of one recipe by one user included, the cart holds at most one row
\* for each (user, recipe) pair.
C5_OneRowPerPair ==
    \A user \in Users, r \in RecipeIds : Copies(cart, Row(user, r)) <= 1

\* C5 witness: two sessions of alice both passed the check of lines 119-124
\* for the same recipe; one row was saved and the second save was refused.
C5_Witness ==
    /\ resp.raised = IntegrityError
    /\ Copies(cart, Row("alice", 1)) = 1
    /\ \A s \in Sessions : req[s].pc = "idle"

\* The request of session s ends in this step with the row added.
Adds(row) ==
    /\ row \notin Range(cart)
    /\ Range(cart') = Range(cart) \cup {row}
    /\ Len(cart') = Len(cart) + 1
\* The request of session s ends in this step with the row removed.
Removes(row) ==
    /\ row \in Range(cart)
    /\ Range(cart') = Range(cart) \ {row}
    /\ Len(cart') = Len(cart) - 1

\* C9: a cart request changes at most the row (requesting user, requested
\* recipe): a 201 add inserts exactly that row, a 204 remove deletes exactly
\* that row, and a request that is refused (the recipe already in the cart,
\* not in the cart, or not existing) answers an error and changes no row.
C9_OnlyTheRequestedRow ==
    [][\A s \in Sessions :
          /\ \A user \in Users, r \in RecipeIds :
                /\ AddExists(s, user, r) =>
                      /\ cart' = cart
                      /\ Row(user, r) \in Range(cart) =>
                            resp'.status = 400 /\ req'[s].pc = "idle"
                /\ RemoveGet(s, user, r) =>
                      /\ cart' = cart
                      /\ recipe[r] \notin Authors =>
                            resp'.status = 404 /\ req'[s].pc = "idle"
          /\ RemoveExists(s) =>
                /\ cart' = cart
                /\ Row(req[s].user, req[s].recipe) \notin Range(cart) =>
                      resp'.status = 400 /\ req'[s].pc = "idle"
          /\ AddSave(s) =>
                \/ resp'.status = 201 /\ Adds(Row(req[s].user, req[s].recipe))
                \/ resp'.status >= 400 /\ cart' = cart
          /\ RemoveDelete(s) =>
                \/ resp'.status = 204 /\ Removes(Row(req[s].user, req[s].recipe))
                \/ resp'.status >= 400 /\ cart' = cart
      ]_vars

\* C9 witness: an add answered 201 beside another row, which was kept.
C9_Witness ==
    /\ resp = Status("cart", 201)
    /\ Len(cart) = 2

\* A step of a request made by this user.
ActsAs(user) ==
    \/ \E s \in Sessions, r \in RecipeIds :
          user.id \in Users /\ (AddExists(s, user.id, r) \/ RemoveGet(s, user.id, r))
    \/ \E s \in Sessions :
          /\ req[s].user = user.id
          /\ AddSave(s) \/ RemoveExists(s) \/ RemoveDelete(s)
    \/ \E payload \in Payloads : RecipeCreate(user, payload)
    \/ \E route \in UpdateRoutes, r \in RecipeIds, payload \in Payloads :
          RecipeUpdate(route, user, r, payload)
    \/ \E r \in RecipeIds : RecipeDestroy(user, r)

\* C6 as claimed: no request of another user (cart add or remove, recipe
\* creation, update or deletion) changes the cart rows of a user.
C6_NoOtherPrincipal ==
    [][\A owner \in Users, user \in Visitors :
          \/ CartOf(cart', owner) = CartOf(cart, owner)
          \/ user.id = owner
          \/ ~ActsAs(user)]_vars

\* The recipes deleted by this step.
Destroyed == {r \in RecipeIds : recipe[r] \in Authors /\ recipe'[r] = Deleted}

\* C6 as amended: no cart request, recipe creation or recipe update of
\* another user changes the cart rows of a user; a recipe deletion by
\* another user removes exactly the rows of the deleted recipe from the
\* cart of every user, and changes no other row.
C6_OnlyDeletionCascades ==
    [][\A owner \in Users, user \in Visitors :
          \/ CartOf(cart', owner) = CartOf(cart, owner) /\ Destroyed = {}
          \/ user.id = owner
          \/ ~ActsAs(user)
          \/ /\ \E r \in RecipeIds : RecipeDestroy(user, r)
             /\ CartOf(cart', owner) =
                   SelectSeq(CartOf(cart, owner),
                             LAMBDA row : row.recipe \notin Destroyed)
      ]_vars

\* C6 witness: a recipe that alice was about to remove from her cart (her
\* request found it there) has been deleted, and her row went with it.
C6_Witness ==
    /\ resp = Status("recipes", 204)
    /\ \E s \in Sessions :
          /\ req[s].pc = "delete" /\ req[s].user = "alice"
          /\ recipe[req[s].recipe] = Deleted
          /\ Row("alice", req[s].recipe) \notin Range(cart)

(***************************************************************************)
(* A download overlapping writes.                                          *)
(***************************************************************************)
\* The shopping list of a sequence of rows: a line per name in the order of
\* first occurrence, with the unit of the first row and the total.
ListOf(rows) ==
    [k \in DOMAIN FirstSeen(rows) |->
        LET named == Named(rows, FirstSeen(rows)[k])
        IN  <<FirstSeen(rows)[k], UnitOf(named[1]), Total(named)>>]

\* The shopping list of a user in one persisted state.
ListIn(snapshot, user) == ListOf(Traversal(snapshot[3], snapshot[2], user))

\* A download call has returned a document, and its history is kept.
Returned == dl.pc = "idle" /\ Downloaded /\ resp.status = 200 /\ hist # NoHistory

\* C7 as claimed: the document of a download that overlaps other requests
\* is the shopping list of one persisted state that existed during the call.
C7_OneSnapshot ==
    Returned => \E snapshot \in hist.seen : resp.body = ListIn(snapshot, resp.user)

RECURSIVE Pieced(_, _, _)
\* The row sequences got by taking, for each cart row in turn, the rows of
\* its recipe from any one of the states.
Pieced(cartRows, states, sofar) ==
    IF cartRows = <<>> THEN {sofar}
    ELSE UNION {Pieced(Tail(cartRows), states,
                       sofar \o RowsOf(state[2], Head(cartRows).recipe)) :
                state \in states}

\* C7 as amended: the document is the shopping list of the cart rows as
\* they were when the call began, each with its recipe's rows as they were
\* at some moment of the call, not necessarily the same moment for all.
C7_PiecedFromQueries ==
    Returned =>
        \E rows \in Pieced(CartOf(hist.first[3], resp.user), hist.seen, <<>>) :
            resp.body = ListOf(rows)

\* C7 witness: a returned document that is the shopping list of no state
\* that existed during the call.
C7_Witness ==
    /\ Returned
    /\ \A snapshot \in hist.seen : resp.body # ListIn(snapshot, resp.user)

(***************************************************************************)
(* The permission class.                                                   *)
(***************************************************************************)
Modifying == {"create", "update", "partial_update", "destroy"}
Checked == perm # NoCheck

\* C10: has_permission denies every unauthenticated request that creates,
\* updates or deletes a recipe; has_object_permission grants a modifying
\* request on a recipe only to its author, a superuser or an admin; read
\* requests are granted to everyone.
C10_AdminOrAuthorOrReadOnly ==
    Checked =>
        /\ (perm.route.action \in Modifying /\ is_anonymous(perm.user)) =>
              ~perm.has_permission
        /\ (perm.route.action \in Modifying /\ perm.route.detail
                /\ perm.has_object_permission) =>
              \/ perm.user.id = perm.author
              \/ perm.user.is_superuser
              \/ perm.user.is_admin
        /\ perm.route.method \in SAFE_METHODS =>
              /\ perm.has_permission
              /\ perm.route.detail => perm.has_object_permission

====
